---- MODULE Spec2Model ----
(***************************************************************************)
(* Displacement Wick Strategy optimizer (displacement_wick_optimizer.py).  *)
(*                                                                         *)
(* The model covers the evaluation pipeline of DisplacementWickStrategy    *)
(* (calculate_indicators, generate_signals, calculate_stops_targets,       *)
(* backtest, calculate_metrics) and the search loop (objective,            *)
(* run_optimization).                                                      *)
(*                                                                         *)
(* Numbers.  Python floats are modelled as exact fixed-point numbers: the  *)
(* real x is the integer x * Scale.  Scale is chosen so that every         *)
(* product and quotient the pipeline forms on the modelled inputs is       *)
(* exact.  Float rounding is modelled apart, for the execution of a single *)
(* trade (SpecFloat, at the end).  A value that pandas can leave           *)
(* undefined (NaN) is a record [nan, v]; comparisons with NaN are FALSE    *)
(* and arithmetic on NaN yields NaN, as in IEEE arithmetic.                *)
(* Bar times are the bar's position in the frame (1-based here, so the     *)
(* Python row i is row i + 1 of the model).                                *)
(***************************************************************************)
EXTENDS Integers, Sequences, FiniteSets, TLC

VARIABLES
    df,        \* self.df: the bars (open, high, low, close), one record per row
    params,    \* self.params
    ind,       \* the indicator columns calculate_indicators adds to self.df
    sig,       \* short_signal / long_signal columns
    lvl,       \* stop_price / target_price / risk columns
    pc,        \* where run() / backtest() stands
    i,         \* backtest's loop index (model row of `row`)
    position,  \* backtest's local `position` (None or a dict)
    trades,    \* backtest's local `trades`
    results,   \* what backtest returns (calculate_metrics(trades))
    study,     \* run_optimization: the trials told to the study, in order
    n_trials   \* run_optimization's trial budget

vars == <<df, params, ind, sig, lvl, pc, i, position, trades, results, study,
          n_trials>>

----------------------------------------------------------------------------
(* Fixed-point reals and NaN *)

AtrPeriod == 14

\* One price point; a multiple of AtrPeriod and of 4 * 4 * 4 so that the
\* rolling mean and the quarter-valued multipliers divide exactly.
Scale == AtrPeriod * 64

None == [none |-> TRUE]

NaN == [nan |-> TRUE, v |-> 0]
F(x) == [nan |-> FALSE, v |-> x]

IsNaN(a) == a.nan
FAdd(a, b) == IF a.nan \/ b.nan THEN NaN ELSE F(a.v + b.v)
FSub(a, b) == IF a.nan \/ b.nan THEN NaN ELSE F(a.v - b.v)
FMul(a, b) == IF a.nan \/ b.nan THEN NaN ELSE F((a.v * b.v) \div Scale)
FDiv(a, b) == IF a.nan \/ b.nan THEN NaN ELSE F((a.v * Scale) \div b.v)
FLe(a, b) == ~a.nan /\ ~b.nan /\ a.v <= b.v
FGe(a, b) == ~a.nan /\ ~b.nan /\ a.v >= b.v
FGt(a, b) == ~a.nan /\ ~b.nan /\ a.v > b.v

Abs(x) == IF x < 0 THEN -x ELSE x
Max(a, b) == IF a >= b THEN a ELSE b
Min(a, b) == IF a <= b THEN a ELSE b

RECURSIVE GCD(_, _)
GCD(a, b) == IF b = 0 THEN Abs(a) ELSE GCD(b, a % b)

\* An exact rational num/den with den > 0, in lowest terms.
Frac(n, d) ==
    LET s == IF d < 0 THEN -1 ELSE 1
        g == GCD(Abs(n), Abs(d))
    IN  [num |-> (s * n) \div g, den |-> (s * d) \div g]

\* s[lo] + ... + s[hi], by halves (which keeps the evaluator's recursion
\* shallow on the long windows).
RECURSIVE SumRange(_, _, _)
SumRange(s, lo, hi) ==
    IF lo > hi THEN 0
    ELSE IF lo = hi THEN s[lo]
    ELSE SumRange(s, lo, (lo + hi) \div 2)
         + SumRange(s, ((lo + hi) \div 2) + 1, hi)

SumSeq(s) == SumRange(s, 1, Len(s))

----------------------------------------------------------------------------
(* Parameters *)

\* default_params(): reals in fixed point (15.0 is 15 * Scale, 0.25 is
\* Scale \div 4, ...).
default_params ==
    [ displacement_length       |-> 100,
      min_displacement_strength |-> 1,
      max_displacement_strength |-> 4,
      min_wick_pct              |-> 15 * Scale,
      min_wick_body_ratio       |-> Scale \div 4,
      trend_ema_length          |-> 50,
      entry_method              |-> "zone_touch",
      target_method             |-> "fixed_rr",
      stop_method               |-> "atr",
      atr_stop_mult             |-> (3 * Scale) \div 2,
      wick_extreme_mult         |-> Scale,
      fixed_stop_ticks          |-> 10,
      target_rr                 |-> 2 * Scale,
      use_max_risk_filter       |-> TRUE,
      max_risk_ticks            |-> 60,
      trade_direction           |-> "auto",
      zone_extend_bars          |-> 50,
      tick_size                 |-> Scale \div 4,
      tick_value                |-> Scale \div 2 ]

\* dict.update: the keys of upd replace those of base.
Update(base, upd) ==
    [k \in DOMAIN base |-> IF k \in DOMAIN upd THEN upd[k] ELSE base[k]]

----------------------------------------------------------------------------
(* calculate_indicators *)

body(b) == Abs(b.close - b.open)
range(b) == b.high - b.low
body_top(b) == Max(b.open, b.close)
body_bottom(b) == Min(b.open, b.close)
upper_wick(b) == b.high - body_top(b)
lower_wick(b) == body_bottom(b) - b.low

\* np.where(range > 0, wick / range * 100, 0) >= min_wick_pct, the quotient
\* compared exactly by cross-multiplication.
WickPctGe(wick, rng, min_pct) ==
    IF rng > 0 THEN wick * 100 * Scale >= min_pct * rng ELSE 0 >= min_pct

\* np.where(body > 0, wick / body, 0) >= min_wick_body_ratio.
WickBodyRatioGe(wick, bdy, min_ratio) ==
    IF bdy > 0 THEN wick * Scale >= min_ratio * bdy ELSE 0 >= min_ratio

\* The bodies of the rolling window ending at row k, on the price grid g
\* (every body is a multiple of g; the comparison below is scale-free).
WindowBodies(d, k, len, g) == [j \in 1..len |-> body(d[k - len + j]) \div g]

\* body > body_std * m for m = 4, 3, 2, 1, with body_std the sample
\* standard deviation (ddof = 1) of the window: b > m * sqrt(V / (n (n - 1)))
\* with V = n * sum(x^2) - (sum x)^2, compared in squares (both sides are
\* >= 0).  rolling(n).std() is NaN before row n and for n = 1: every
\* comparison is then False and the strength 0.
displacement_strength(d, k, len, g) ==
    IF k < len \/ len < 2 THEN 0
    ELSE LET w == WindowBodies(d, k, len, g)
             s1 == SumSeq(w)
             s2 == SumSeq([j \in 1..len |-> w[j] * w[j]])
             V == len * s2 - s1 * s1
             lhs == w[len] * w[len] * len * (len - 1)
         IN  IF lhs > 16 * V THEN 4
             ELSE IF lhs > 9 * V THEN 3
             ELSE IF lhs > 4 * V THEN 2
             ELSE IF lhs > V THEN 1
             ELSE 0

\* One step of close.ewm(span, adjust=False).mean():
\* y_k = (1 - a) y_(k-1) + a x_k with a = 2 / (span + 1); an exact rational.
EmaNext(y, x, span) ==
    Frac((span - 1) * y.num + 2 * x * y.den, (span + 1) * y.den)

\* The ema column extended by rows lo..hi (acc holds rows 1..lo-1): y_1 =
\* x_1, then EmaNext row by row; by halves, first half first, as in
\* ScanRange below.
RECURSIVE EmaRange(_, _, _, _, _)
EmaRange(acc, lo, hi, d, span) ==
    IF lo > hi THEN acc
    ELSE IF lo = hi
    THEN IF lo = 1 THEN <<Frac(d[1].close, 1)>>
         ELSE Append(acc, EmaNext(acc[lo - 1], d[lo].close, span))
    ELSE LET mid == (lo + hi) \div 2
             a == EmaRange(acc, lo, mid, d, span)
         IN  IF a = acc THEN EmaRange(acc, mid + 1, hi, d, span)
             ELSE EmaRange(a, mid + 1, hi, d, span)

EmaColumn(d, span) == EmaRange(<<>>, 1, Len(d), d, span)

\* True range of row k; close.shift(1) is NaN on the first row and
\* max(axis=1) skips NaN.
TrueRange(d, k) ==
    IF k = 1 THEN d[1].high - d[1].low
    ELSE Max(d[k].high - d[k].low,
             Max(Abs(d[k].high - d[k - 1].close),
                 Abs(d[k].low - d[k - 1].close)))

\* tr.rolling(period).mean(): NaN until the window is full.
CalculateAtr(d, k, period) ==
    IF k < period THEN NaN
    ELSE F(SumSeq([j \in 1..period |-> TrueRange(d, k - period + j)])
             \div period)

\* The columns calculate_indicators derives for row k (body, range and the
\* wicks are the operators above); y is the row's ema, g the price grid of
\* the frame.
IndicatorRow(d, k, y, p, g) ==
    LET b == d[k]
        strength == displacement_strength(d, k, p.displacement_length, g)
    IN  [ displacement_strength |-> strength,
          is_uptrend    |-> b.close * y.den > y.num,
          is_downtrend  |-> b.close * y.den < y.num,
          atr           |-> CalculateAtr(d, k, AtrPeriod),
          is_bullish    |-> b.close > b.open,
          is_bearish    |-> b.close < b.open,
          has_upper_wick |->
              /\ WickPctGe(upper_wick(b), range(b), p.min_wick_pct)
              /\ WickBodyRatioGe(upper_wick(b), body(b), p.min_wick_body_ratio),
          has_lower_wick |->
              /\ WickPctGe(lower_wick(b), range(b), p.min_wick_pct)
              /\ WickBodyRatioGe(lower_wick(b), body(b), p.min_wick_body_ratio),
          is_valid_displacement |->
              /\ strength >= p.min_displacement_strength
              /\ strength <= p.max_displacement_strength ]

calculate_indicators(d, p, g) ==
    LET y == EmaColumn(d, p.trend_ema_length)
    IN  [k \in 1..Len(d) |-> IndicatorRow(d, k, y[k], p, g)]

----------------------------------------------------------------------------
(* generate_signals *)

short_base(r) == r.is_valid_displacement /\ r.is_bullish /\ r.has_upper_wick
long_base(r) == r.is_valid_displacement /\ r.is_bearish /\ r.has_lower_wick

\* Signals whose 'auto' mode leaves the trend out.
SignalRowAutoWithoutTrend(r, p) ==
    IF p.trade_direction = "long_only"
    THEN [short_signal |-> FALSE, long_signal |-> long_base(r)]
    ELSE IF p.trade_direction = "short_only"
    THEN [short_signal |-> short_base(r), long_signal |-> FALSE]
    ELSE [short_signal |-> short_base(r), long_signal |-> long_base(r)]

SignalRow(r, p) ==
    IF p.trade_direction = "auto"
    THEN [short_signal |-> short_base(r) /\ r.is_downtrend,
          long_signal  |-> long_base(r) /\ r.is_uptrend]
    ELSE IF p.trade_direction = "long_only"
    THEN [short_signal |-> FALSE, long_signal |-> long_base(r)]
    ELSE IF p.trade_direction = "short_only"
    THEN [short_signal |-> short_base(r), long_signal |-> FALSE]
    ELSE [short_signal |-> short_base(r), long_signal |-> long_base(r)]

generate_signals(n, p) == [k \in 1..Len(n) |-> SignalRow(n[k], p)]

----------------------------------------------------------------------------
(* calculate_stops_targets *)

\* stop_distance for a row with indicators r.
StopDistance(r, p) ==
    IF p.stop_method = "atr" THEN FMul(r.atr, F(p.atr_stop_mult))
    ELSE IF p.stop_method = "fixed_ticks"
    THEN F(p.fixed_stop_ticks * p.tick_size)
    ELSE F(0)

\* The SHORT setups block, for one row of short_mask.
ShortLevels(b, r, p) ==
    LET stop == IF p.stop_method = "wick_extreme"
                THEN FAdd(F(b.high), FMul(F(upper_wick(b)), F(p.wick_extreme_mult)))
                ELSE FAdd(F(b.high), StopDistance(r, p))
        entry == F(b.high)
        risk == FSub(stop, entry)
    IN  [ stop_price |-> stop,
          risk |-> risk,
          target_price |->
              IF p.target_method = "fixed_rr"
              THEN FSub(entry, FMul(risk, F(p.target_rr)))
              ELSE IF p.target_method = "wick_fill" THEN F(body_top(b))
              ELSE IF p.target_method = "entire_candle" THEN F(b.low)
              ELSE F(body_bottom(b)) ]

\* The LONG setups block, for one row of long_mask.
LongLevels(b, r, p) ==
    LET stop == IF p.stop_method = "wick_extreme"
                THEN FSub(F(b.low), FMul(F(lower_wick(b)), F(p.wick_extreme_mult)))
                ELSE FSub(F(b.low), StopDistance(r, p))
        entry == F(b.low)
        risk == FSub(entry, stop)
    IN  [ stop_price |-> stop,
          risk |-> risk,
          target_price |->
              IF p.target_method = "fixed_rr"
              THEN FAdd(entry, FMul(risk, F(p.target_rr)))
              ELSE IF p.target_method = "wick_fill" THEN F(body_bottom(b))
              ELSE IF p.target_method = "entire_candle" THEN F(b.high)
              ELSE F(body_top(b)) ]

\* stop_price / target_price / risk of a row: NaN as initialised, then the
\* short block, then the long block (which would overwrite a row in both
\* masks).
LevelRow(b, r, s, p) ==
    IF s.long_signal THEN LongLevels(b, r, p)
    ELSE IF s.short_signal THEN ShortLevels(b, r, p)
    ELSE [stop_price |-> NaN, risk |-> NaN, target_price |-> NaN]

\* A filter that is never applied.
MaxRiskFilterRowOff(s, l, p) == s

\* "Apply max risk filter": rows with risk > max_risk lose both signals;
\* their stop_price, target_price and risk are left as computed.
MaxRiskFilterRow(s, l, p) ==
    IF p.use_max_risk_filter
       /\ FGt(l.risk, F(p.max_risk_ticks * p.tick_size))
    THEN [short_signal |-> FALSE, long_signal |-> FALSE]
    ELSE s

\* The lvl columns and the filtered signal columns.
calculate_stops_targets(d, n, s, p) ==
    LET l == [k \in 1..Len(d) |-> LevelRow(d[k], n[k], s[k], p)]
    IN  [ lvl |-> l,
          sig |-> [k \in 1..Len(d) |-> MaxRiskFilterRow(s[k], l[k], p)] ]

----------------------------------------------------------------------------
(* backtest *)

\* An exit check that tests the target first and the stop in the elif.
ExitCheckTargetFirst(pos, next_row) ==
    IF pos.direction = "long"
    THEN IF FGe(F(next_row.high), pos.target)
         THEN [exit_price |-> pos.target, exit_reason |-> "target"]
         ELSE IF FLe(F(next_row.low), pos.stop)
         THEN [exit_price |-> pos.stop, exit_reason |-> "stop"]
         ELSE None
    ELSE IF FLe(F(next_row.low), pos.target)
         THEN [exit_price |-> pos.target, exit_reason |-> "target"]
         ELSE IF FGe(F(next_row.high), pos.stop)
         THEN [exit_price |-> pos.stop, exit_reason |-> "stop"]
         ELSE None

\* "Check for exit if in position": the exit of pos against next_row, or
\* None.  The stop is tested first, the target in the elif.
ExitCheck(pos, next_row) ==
    IF pos.direction = "long"
    THEN IF FLe(F(next_row.low), pos.stop)
         THEN [exit_price |-> pos.stop, exit_reason |-> "stop"]
         ELSE IF FGe(F(next_row.high), pos.target)
         THEN [exit_price |-> pos.target, exit_reason |-> "target"]
         ELSE None
    ELSE IF FGe(F(next_row.high), pos.stop)
         THEN [exit_price |-> pos.stop, exit_reason |-> "stop"]
         ELSE IF FLe(F(next_row.low), pos.target)
         THEN [exit_price |-> pos.target, exit_reason |-> "target"]
         ELSE None

\* The dict appended to trades; t is the time of next_row (df.index[i + 1]).
MakeTrade(pos, x, t, p) ==
    LET pnl == IF pos.direction = "long"
               THEN FSub(x.exit_price, pos.entry)
               ELSE FSub(pos.entry, x.exit_price)
        pnl_ticks == FDiv(pnl, F(p.tick_size))
    IN  [ entry_time  |-> pos.entry_time,
          exit_time   |-> t,
          direction   |-> pos.direction,
          entry       |-> pos.entry,
          exit        |-> x.exit_price,
          stop        |-> pos.stop,
          target      |-> pos.target,
          pnl_points  |-> pnl,
          pnl_ticks   |-> pnl_ticks,
          pnl_dollars |-> FMul(pnl_ticks, F(p.tick_value)),
          exit_reason |-> x.exit_reason,
          risk        |-> pos.risk,
          r_multiple  |-> IF FGt(pos.risk, F(0)) THEN FDiv(pnl, pos.risk)
                          ELSE F(0) ]

\* A position dict stamped with the signal row's time instead of next_row's.
OpenPositionAtSignalBar(dir, l, next_row, t, p) ==
    LET entry_price == F(next_row.open)
        risk == l.risk
    IN  [ direction  |-> dir,
          entry      |-> entry_price,
          entry_time |-> t - 1,
          stop       |-> IF dir = "short" THEN FAdd(entry_price, risk)
                         ELSE FSub(entry_price, risk),
          target     |-> IF dir = "short"
                         THEN FSub(entry_price, FMul(risk, F(p.target_rr)))
                         ELSE FAdd(entry_price, FMul(risk, F(p.target_rr))),
          risk       |-> risk ]

\* A position dict filled at next_row's close instead of its open.
OpenPositionAtClose(dir, l, next_row, t, p) ==
    LET entry_price == F(next_row.close)
        risk == l.risk
    IN  [ direction  |-> dir,
          entry      |-> entry_price,
          entry_time |-> t,
          stop       |-> IF dir = "short" THEN FAdd(entry_price, risk)
                         ELSE FSub(entry_price, risk),
          target     |-> IF dir = "short"
                         THEN FSub(entry_price, FMul(risk, F(p.target_rr)))
                         ELSE FAdd(entry_price, FMul(risk, F(p.target_rr))),
          risk       |-> risk ]

\* A position dict that takes its target from the signal row's target_price
\* column.
OpenPositionAtColumnTarget(dir, l, next_row, t, p) ==
    LET entry_price == F(next_row.open)
        risk == l.risk
    IN  [ direction  |-> dir,
          entry      |-> entry_price,
          entry_time |-> t,
          stop       |-> IF dir = "short" THEN FAdd(entry_price, risk)
                         ELSE FSub(entry_price, risk),
          target     |-> l.target_price,
          risk       |-> risk ]

\* The position dict built from the signal row's risk and next_row's open;
\* t is the time of next_row.
OpenPosition(dir, l, next_row, t, p) ==
    LET entry_price == F(next_row.open)
        risk == l.risk
    IN  [ direction  |-> dir,
          entry      |-> entry_price,
          entry_time |-> t,
          stop       |-> IF dir = "short" THEN FAdd(entry_price, risk)
                         ELSE FSub(entry_price, risk),
          target     |-> IF dir = "short"
                         THEN FSub(entry_price, FMul(risk, F(p.target_rr)))
                         ELSE FAdd(entry_price, FMul(risk, F(p.target_rr))),
          risk       |-> risk ]

\* "Check for new entry": the position opened from row (signals s, levels
\* l) at next_row's open, or None; short is tested first.
EntryCheck(s, l, next_row, t, p) ==
    IF s.short_signal /\ ~IsNaN(l.stop_price)
    THEN OpenPosition("short", l, next_row, t, p)
    ELSE IF s.long_signal /\ ~IsNaN(l.stop_price)
    THEN OpenPosition("long", l, next_row, t, p)
    ELSE None

\* An entry check that is made whether or not a position is open.
MayEnterAlways(pos) == TRUE

\* "only if not in position".
MayEnter(pos) == pos = None

\* One iteration of the loop, row k against next_row k + 1: the exit check,
\* then the entry check.
ScanStep(pos, trs, k, d, s, l, p) ==
    LET x == IF pos # None THEN ExitCheck(pos, d[k + 1]) ELSE None
        pos1 == IF x # None THEN None ELSE pos
        trs1 == IF x # None THEN Append(trs, MakeTrade(pos, x, k + 1, p))
                ELSE trs
        e == IF MayEnter(pos1) THEN EntryCheck(s[k], l[k], d[k + 1], k + 1, p)
             ELSE None
    IN  [ position |-> IF e # None THEN e ELSE pos1,
          trades   |-> trs1 ]

\* A trade list in which a position still open after the last bar is closed
\* flat at its entry price.
FinalTradesForceClose(pos, trs) ==
    IF pos = None THEN trs
    ELSE Append(trs,
                [ entry_time  |-> pos.entry_time,
                  exit_time   |-> pos.entry_time,
                  direction   |-> pos.direction,
                  entry       |-> pos.entry,
                  exit        |-> pos.entry,
                  stop        |-> pos.stop,
                  target      |-> pos.target,
                  pnl_points  |-> F(0),
                  pnl_ticks   |-> F(0),
                  pnl_dollars |-> F(0),
                  exit_reason |-> "end_of_data",
                  risk        |-> pos.risk,
                  r_multiple  |-> F(0) ])

\* The trade list handed to calculate_metrics when the loop is over: an
\* open position is dropped.
FinalTrades(pos, trs) == trs

\* The iterations lo..hi of the loop, from the loop state st = [position,
\* trades]: the first half, then the second half from where the first got
\* to, which is the iterations in order.  (Halving keeps the evaluator's
\* recursion shallow; the test on `a` has the same call in both branches
\* and only makes it finish the first half before it starts the second.)
RECURSIVE ScanRange(_, _, _, _, _, _, _)
ScanRange(st, lo, hi, d, s, l, p) ==
    IF lo > hi THEN st
    ELSE IF lo = hi THEN ScanStep(st.position, st.trades, lo, d, s, l, p)
    ELSE LET mid == (lo + hi) \div 2
             a == ScanRange(st, lo, mid, d, s, l, p)
         IN  IF a = st THEN ScanRange(st, mid + 1, hi, d, s, l, p)
             ELSE ScanRange(a, mid + 1, hi, d, s, l, p)

\* backtest's loop, for i in range(len(df) - 1), and the list it hands on.
Backtest(d, s, l, p) ==
    LET st == ScanRange([position |-> None, trades |-> <<>>],
                        1, Len(d) - 1, d, s, l, p)
    IN  FinalTrades(st.position, st.trades)

----------------------------------------------------------------------------
(* calculate_metrics *)

\* Exact rationals extended with +infinity (float('inf')), written 1/0.
Inf == [num |-> 1, den |-> 0]
Zero == [num |-> 0, den |-> 1]
IsInf(a) == a.den = 0
RAdd(a, b) ==
    IF IsInf(a) \/ IsInf(b) THEN Inf
    ELSE Frac(a.num * b.den + b.num * a.den, a.den * b.den)
RSub(a, b) ==
    IF IsInf(a) THEN Inf
    ELSE Frac(a.num * b.den - b.num * a.den, a.den * b.den)
RLt(a, b) ==
    IF IsInf(a) THEN FALSE
    ELSE IF IsInf(b) THEN TRUE
    ELSE a.num * b.den < b.num * a.den

IsWinner(t) == FGt(t.pnl_dollars, F(0))
IsLoser(t) == FLe(t.pnl_dollars, F(0))

\* trades_df[mask] for mask in "winners", "losers", "all".
Selected(t, mask) ==
    IF mask = "winners" THEN IsWinner(t)
    ELSE IF mask = "losers" THEN IsLoser(t)
    ELSE TRUE

\* The defined values of column c of the trades selected by mask, in order
\* (pandas reductions skip NaN).
RECURSIVE Column(_, _, _)
Column(trs, c, mask) ==
    IF trs = <<>> THEN <<>>
    ELSE LET t == Head(trs)
             rest == Column(Tail(trs), c, mask)
         IN  IF Selected(t, mask) /\ ~IsNaN(t[c]) THEN <<t[c].v>> \o rest
             ELSE rest

\* cumsum, cummax and (rolling_max - cumulative).max() in one pass: acc is
\* the cumulative sum so far, peak its running maximum, dd the largest
\* drawdown so far.
RECURSIVE MaxDrawdownFrom(_, _, _, _, _)
MaxDrawdownFrom(xs, k, acc, peak, dd) ==
    IF k > Len(xs) THEN dd
    ELSE LET c == acc + xs[k]
             m == IF k = 1 THEN c ELSE Max(peak, c)
         IN  MaxDrawdownFrom(xs, k + 1, c, m, Max(dd, m - c))

\* pnl_dollars.std() > 0: at least two trades, not all equal.
StdPositive(xs) == Len(xs) >= 2 /\ \E j \in 2..Len(xs) : xs[j] # xs[1]

\* A profit factor that is 0 when there is no gross loss.
ProfitFactorZeroWithoutLoss(gross_profit, gross_loss) ==
    IF gross_loss > 0 THEN Frac(gross_profit, gross_loss) ELSE Zero

\* gross_profit / gross_loss if gross_loss > 0 else float('inf').
ProfitFactor(gross_profit, gross_loss) ==
    IF gross_loss > 0 THEN Frac(gross_profit, gross_loss) ELSE Inf

\* Money is fixed point (Scale per dollar), ratios are exact rationals.
\* sharpe is mean / std: 0 when the std is 0 or undefined, else kept as
\* the mean with the std known to be positive (its root is not taken).
calculate_metrics(trs) ==
    IF trs = <<>>
    THEN [ total_trades |-> 0, win_rate |-> Zero, profit_factor |-> Zero,
           total_pnl |-> 0, avg_winner |-> Zero, avg_loser |-> Zero,
           max_drawdown |-> 0, sharpe |-> Zero, avg_r |-> Zero ]
    ELSE LET winners == Column(trs, "pnl_dollars", "winners")
             losers == Column(trs, "pnl_dollars", "losers")
             pnl == Column(trs, "pnl_dollars", "all")
             r == Column(trs, "r_multiple", "all")
             gross_profit == IF Len(winners) > 0 THEN SumSeq(winners) ELSE 0
             gross_loss == IF Len(losers) > 0 THEN Abs(SumSeq(losers)) ELSE 0
         IN  [ total_trades |-> Len(trs),
               win_rate |-> Frac(Len(winners) * 100, Len(trs)),
               profit_factor |-> ProfitFactor(gross_profit, gross_loss),
               total_pnl |-> SumSeq(pnl),
               avg_winner |-> IF Len(winners) > 0
                              THEN Frac(SumSeq(winners), Len(winners) * Scale)
                              ELSE Zero,
               avg_loser |-> IF Len(losers) > 0
                             THEN Frac(SumSeq(losers), Len(losers) * Scale)
                             ELSE Zero,
               max_drawdown |-> MaxDrawdownFrom(pnl, 1, 0, 0, 0),
               sharpe |-> IF StdPositive(pnl)
                          THEN [mean |-> Frac(SumSeq(pnl), Len(pnl) * Scale),
                                std_positive |-> TRUE]
                          ELSE Zero,
               avg_r |-> Frac(SumSeq(r), Len(r) * Scale) ]

\* The trade list backtest builds in run(), before the metrics.
RunTrades(d, p, g) ==
    LET n == calculate_indicators(d, p, g)
        s0 == generate_signals(n, p)
        c == calculate_stops_targets(d, n, s0, p)
    IN  Backtest(d, c.sig, c.lvl, p)

\* run(): the three column passes, then backtest.
Run(d, p, g) ==
    LET n == calculate_indicators(d, p, g)
        s0 == generate_signals(n, p)
        c == calculate_stops_targets(d, n, s0, p)
    IN  calculate_metrics(Backtest(d, c.sig, c.lvl, p))

----------------------------------------------------------------------------
(* Inputs *)

\* The price grid of the modelled frames: one tick of the default tick_size.
Tick == Scale \div 4

Bar(o, h, l, c) ==
    [open |-> o * Tick, high |-> h * Tick, low |-> l * Tick, close |-> c * Tick]

\* Bar shapes (in ticks): a bullish candle with an upper wick, a bearish
\* candle with a lower wick, a quiet doji, and a wide bullish candle whose
\* range spans the levels of a position opened at 12.
BarS == Bar(8, 14, 8, 12)
BarL == Bar(18, 18, 12, 14)
BarQ == Bar(12, 13, 11, 12)
BarW == Bar(12, 20, 4, 16)
Shapes == {BarS, BarL, BarQ, BarW}

\* Longest free part of a frame.
MaxBars == 4

Quiet(n) == [j \in 1..n |-> BarQ]

\* The frames of a direct run: nothing or an ATR warm-up of quiet bars,
\* then up to MaxBars bars of any shape.
Frames ==
    { Quiet(w) \o s : w \in {0, AtrPeriod - 1},
                      s \in UNION {[1..m -> Shapes] : m \in 0..MaxBars} }

\* Windows short enough to fill within a frame; both sides traded.
BaseParams ==
    Update(default_params,
           [ displacement_length |-> 2, trend_ema_length |-> 3,
             stop_method |-> "wick_extreme", trade_direction |-> "both" ])

\* The values of target_method.
TargetMethods == {"fixed_rr", "wick_fill", "body_fill", "entire_candle"}

\* The parameter dicts a caller passes to DisplacementWickStrategy.
ParamSets ==
    { BaseParams,
      Update(BaseParams, [max_risk_ticks |-> 3]),
      Update(BaseParams, [max_risk_ticks |-> 3, use_max_risk_filter |-> FALSE]),
      Update(BaseParams, [stop_method |-> "atr"]),
      Update(BaseParams, [stop_method |-> "fixed_ticks", fixed_stop_ticks |-> 2]),
      Update(BaseParams, [stop_method |-> "fixed_ticks", fixed_stop_ticks |-> 0]),
      Update(BaseParams, [trade_direction |-> "auto"]),
      Update(BaseParams, [trade_direction |-> "long_only"]),
      Update(BaseParams, [trade_direction |-> "short_only"]),
      Update(BaseParams, [min_displacement_strength |-> 3,
                          max_displacement_strength |-> 2]),
      Update(BaseParams, [target_method |-> "wick_fill"]) }

----------------------------------------------------------------------------
(* DisplacementWickStrategy(df, params).run() *)

\* __init__: params or default_params().
Construct(p) == IF p = None THEN default_params ELSE p

Init ==
    /\ df \in Frames
    /\ \E p \in ParamSets \cup {None} :
           /\ params = Construct(p)
           \* the default trend_ema_length (50) is run on constant closes
           \* only, where the exact ema stays small
           /\ p = None => \E n \in 0..Len(df) : df = Quiet(n)
           \* the frames with an ATR warm-up are run with the stop method
           \* that reads the atr column (and with the defaults)
           /\ Len(df) > MaxBars =>
                  IF p = None THEN TRUE ELSE p.stop_method = "atr"
    /\ ind = <<>>
    /\ sig = <<>>
    /\ lvl = <<>>
    /\ pc = "indicators"
    /\ i = 1
    /\ position = None
    /\ trades = <<>>
    /\ results = None
    /\ study = <<>>
    /\ n_trials = 0

CalculateIndicators ==
    /\ pc = "indicators"
    /\ ind' = calculate_indicators(df, params, Tick)
    /\ pc' = "signals"
    /\ UNCHANGED <<df, params, sig, lvl, i, position, trades, results, study,
                   n_trials>>

GenerateSignals ==
    /\ pc = "signals"
    /\ sig' = generate_signals(ind, params)
    /\ pc' = "levels"
    /\ UNCHANGED <<df, params, ind, lvl, i, position, trades, results, study,
                   n_trials>>

CalculateStopsTargets ==
    /\ pc = "levels"
    /\ LET c == calculate_stops_targets(df, ind, sig, params)
       IN  /\ lvl' = c.lvl
           /\ sig' = c.sig
    /\ pc' = "scan"
    /\ i' = 1
    /\ position' = None
    /\ trades' = <<>>
    /\ UNCHANGED <<df, params, ind, results, study,
                   n_trials>>

\* One iteration of backtest's loop.
BacktestStep ==
    /\ pc = "scan"
    /\ i <= Len(df) - 1
    /\ LET r == ScanStep(position, trades, i, df, sig, lvl, params)
       IN  /\ position' = r.position
           /\ trades' = r.trades
    /\ i' = i + 1
    /\ UNCHANGED <<df, params, ind, sig, lvl, pc, results, study,
                   n_trials>>

\* The loop is over: return self.calculate_metrics(trades).
BacktestReturn ==
    /\ pc = "scan"
    /\ i > Len(df) - 1
    /\ trades' = FinalTrades(position, trades)
    /\ results' = calculate_metrics(trades')
    /\ pc' = "done"
    /\ UNCHANGED <<df, params, ind, sig, lvl, i, position, study,
                   n_trials>>

Next ==
    \/ CalculateIndicators
    \/ GenerateSignals
    \/ CalculateStopsTargets
    \/ BacktestStep
    \/ BacktestReturn

Spec == Init /\ [][Next]_vars

----------------------------------------------------------------------------
(* Properties of backtest *)

\* Row k carries a signal for direction dir that the entry check accepts.
Signalled(k, dir) ==
    /\ k \in 1..Len(sig)
    /\ IF dir = "short" THEN sig[k].short_signal ELSE sig[k].long_signal
    /\ ~IsNaN(lvl[k].stop_price)

\* The bar's range reaches the stop / the target of e (a position or trade).
ReachesStop(bar, e) ==
    IF e.direction = "long" THEN FLe(F(bar.low), e.stop)
    ELSE FGe(F(bar.high), e.stop)

ReachesTarget(bar, e) ==
    IF e.direction = "long" THEN FGe(F(bar.high), e.target)
    ELSE FLe(F(bar.low), e.target)

\* The step appended exactly one trade, closing the position open before it.
ExitedInStep ==
    /\ position # None
    /\ Len(trades') = Len(trades) + 1
    /\ SubSeq(trades', 1, Len(trades)) = trades
    /\ trades'[Len(trades')].entry_time = position.entry_time
    /\ trades'[Len(trades')].exit_time = i + 1

\* C1: in every scan step at most one trade is closed; a position that is
\* open and does not exit in the step is still the open position after it,
\* whatever signal the row carries; and a position is opened only in a step
\* in which none was open or the open one exited in that step, from the
\* signal of that step's row (entry_time i + 1), never from an earlier row.
C1_NoPyramiding ==
    [][ (pc = "scan" /\ pc' = "scan") =>
          /\ trades' = trades \/ ExitedInStep
          /\ (position # None /\ trades' = trades) => position' = position
          /\ (position' # None /\ position' # position) =>
                /\ position = None \/ ExitedInStep
                /\ position'.entry_time = i + 1
                /\ Signalled(i, position'.direction) ]_vars

\* A position stayed open through a step whose row carried an accepted
\* signal.
C1_Witness ==
    /\ pc = "scan"
    /\ position # None
    /\ i >= 2
    /\ position.entry_time < i
    /\ Signalled(i - 1, "short") \/ Signalled(i - 1, "long")

\* b follows a in time without overlap; they touch only where the row before
\* a's exit bar carries an accepted signal and b is filled at that bar's open.
Follows(a, b) ==
    /\ a.entry_time < a.exit_time
    /\ a.exit_time <= b.entry_time
    /\ a.exit_time = b.entry_time =>
          /\ Signalled(a.exit_time - 1, b.direction)
          /\ b.entry = F(df[a.exit_time].open)

\* C2: the trades are in time order and do not overlap: each trade's
\* entry_time is not earlier than the exit_time of the trade before it (and
\* the open position's not earlier than the last trade's exit_time); the two
\* coincide only when the row before the exit bar carries a signal with a
\* defined stop, the new position being filled at the exit bar's open.
C2_TradesDoNotOverlap ==
    /\ \A k \in 1..(Len(trades) - 1) :
          /\ Follows(trades[k], trades[k + 1])
          /\ trades[k].exit_time <= trades[k + 1].exit_time
    /\ (position # None /\ trades # <<>>) =>
          Follows(trades[Len(trades)], position)

\* Two consecutive trades, the second entered on the bar the first exited on.
C2_Witness ==
    \E k \in 1..(Len(trades) - 1) :
        trades[k].exit_time = trades[k + 1].entry_time

\* e was opened from the signal of the row before its entry bar, at that
\* bar's open.
EntryOK(e) ==
    /\ e.entry_time \in 2..Len(df)
    /\ e.entry = F(df[e.entry_time].open)
    /\ Signalled(e.entry_time - 1, e.direction)

\* C3: the open position and every trade have an entry_time that is the
\* time of the bar after a signal row, hence strictly later than the signal
\* bar and never beyond the last bar, and an entry price equal to that
\* bar's open.
C3_EntryAtNextOpen ==
    /\ position # None => EntryOK(position)
    /\ \A k \in 1..Len(trades) : EntryOK(trades[k])

\* The scan is over with no position open, the last row carried an accepted
\* signal, and trades were made from earlier signals.
C3_Witness ==
    /\ pc = "done"
    /\ position = None
    /\ trades # <<>>
    /\ Signalled(Len(df), "short") \/ Signalled(Len(df), "long")

\* C4: in a scan step with a position open, against the next bar: if the
\* stop is reached the position is closed at the stop price with
\* exit_reason 'stop' (whether or not the target is reached too); otherwise
\* if the target is reached it is closed at the target price with
\* exit_reason 'target'; otherwise nothing is closed and the position stays.
C4_StopBeforeTarget ==
    [][ (pc = "scan" /\ pc' = "scan" /\ position # None) =>
          LET bar == df[i + 1]
              last == trades'[Len(trades')]
          IN  IF ReachesStop(bar, position)
              THEN /\ ExitedInStep
                   /\ last.exit_reason = "stop"
                   /\ last.exit = position.stop
              ELSE IF ReachesTarget(bar, position)
              THEN /\ ExitedInStep
                   /\ last.exit_reason = "target"
                   /\ last.exit = position.target
              ELSE /\ trades' = trades
                   /\ position' = position ]_vars

\* A trade closed at its stop on a bar whose range reached its target too.
C4_Witness ==
    \E k \in 1..Len(trades) :
        /\ trades[k].exit_reason = "stop"
        /\ trades[k].exit = trades[k].stop
        /\ ReachesTarget(df[trades[k].exit_time], trades[k])
        /\ trades[k].stop # trades[k].target

\* C5: every trade in the list was closed at its stop or its target, on a
\* bar of the frame that reached that level; and when backtest has returned,
\* the metrics count exactly the trades closed during the scan, a position
\* still open after the last bar being none of them.
C5_OpenPositionDiscarded ==
    /\ \A k \in 1..Len(trades) :
          /\ trades[k].exit_reason \in {"stop", "target"}
          /\ trades[k].exit_time \in 1..Len(df)
          /\ IF trades[k].exit_reason = "stop"
             THEN /\ ReachesStop(df[trades[k].exit_time], trades[k])
                  /\ trades[k].exit = trades[k].stop
             ELSE /\ ReachesTarget(df[trades[k].exit_time], trades[k])
                  /\ trades[k].exit = trades[k].target
    /\ pc = "done" =>
          /\ results.total_trades = Len(trades)
          /\ position # None =>
                \A k \in 1..Len(trades) :
                    trades[k].entry_time < position.entry_time

\* backtest has returned with a position still open and earlier trades
\* closed.
C5_Witness ==
    /\ pc = "done"
    /\ position # None
    /\ trades # <<>>
    /\ results.total_trades = Len(trades)

----------------------------------------------------------------------------
(* objective and run_optimization *)

\* The values the model draws from each suggest_* range of objective.
SearchSpace ==
    [ displacement_length       : {50},
      min_displacement_strength : {1, 3},
      max_displacement_strength : {2, 4},
      min_wick_pct              : {10 * Scale},
      min_wick_body_ratio       : {Scale \div 4},
      trend_ema_length          : {20},
      entry_method              : {"zone_touch"},
      target_method             : {"fixed_rr"},
      stop_method               : {"fixed_ticks"},
      atr_stop_mult             : {Scale},
      wick_extreme_mult         : {Scale \div 2},
      fixed_stop_ticks          : {8},
      target_rr                 : {Scale},
      max_risk_ticks            : {30},
      trade_direction           : {"both"},
      zone_extend_bars          : {20} ]

\* "Ensure max >= min for displacement strength" / "Fix displacement
\* strength".
FixDisplacementStrength(p) ==
    IF p.max_displacement_strength < p.min_displacement_strength
    THEN [p EXCEPT !.max_displacement_strength = p.min_displacement_strength]
    ELSE p

\* The params dict objective builds from the trial's suggestions.
ObjectiveParams(sample) ==
    FixDisplacementStrength(
        [k \in DOMAIN default_params |->
            IF k \in DOMAIN sample THEN sample[k]
            ELSE IF k = "use_max_risk_filter" THEN TRUE
            ELSE IF k = "tick_size" THEN Scale \div 4
            ELSE Scale \div 2])

\* A score whose penalty also takes the runs of exactly 20 trades.
ScorePenaltyUpTo20(r) ==
    IF r.total_trades <= 20 THEN Frac(-1000, 1)
    ELSE RSub(RAdd(r.profit_factor,
                   Frac(r.win_rate.num, r.win_rate.den * 100)),
              Frac(r.max_drawdown, 1000 * Scale))

\* The value objective returns for the results of its run.
Score(r) ==
    IF r.total_trades < 20 THEN Frac(-1000, 1)
    ELSE RSub(RAdd(r.profit_factor,
                   Frac(r.win_rate.num, r.win_rate.den * 100)),
              Frac(r.max_drawdown, 1000 * Scale))

\* The params run_optimization rebuilds from study.best_params.
BestParams(best) == FixDisplacementStrength(Update(default_params, best))

\* study.best_trial is Optuna's: a trial none of the others beats.  Which of
\* several trials with the same value it is, is the library's choice.
IsBest(st, b) == \A j \in 1..Len(st) : ~RLt(st[b].value, st[j].value)

\* Frames of the search: 49 bars to fill the displacement window, then m
\* bars cycling through a pattern.  A short opened at 12 with 8 ticks of
\* risk and target_rr 1 is stopped by BarX4 and reaches its target on BarX3.
BarX1 == Bar(12, 18, 12, 16)
BarX3 == Bar(12, 18, 4, 16)
BarX4 == Bar(12, 21, 12, 16)

Cycle(pat, m) == [j \in 1..m |-> pat[((j - 1) % Len(pat)) + 1]]

\* Length of the traded part of the longest frame.
OptBars == 24

\* Largest trial budget.
MaxTrials == 2

OptFrames ==
    { [j \in 1..49 |-> BarX1] \o Cycle(pat, m) :
        pat \in {<<BarX3>>, <<BarX3, BarX4>>, <<BarX4, BarX3, BarX3>>},
        m \in {OptBars - 3, OptBars - 2} }

InitOpt ==
    /\ df \in OptFrames
    /\ n_trials \in 1..MaxTrials
    /\ study = <<>>
    /\ pc = "optimize"
    /\ params = None
    /\ results = None
    /\ ind = <<>>
    /\ sig = <<>>
    /\ lvl = <<>>
    /\ i = 1
    /\ position = None
    /\ trades = <<>>

\* One trial of study.optimize: objective samples, runs the strategy and
\* returns the score, which the study records with the sampled values.
Trial ==
    /\ pc = "optimize"
    /\ Len(study) < n_trials
    /\ \E sample \in SearchSpace :
        /\ params' = ObjectiveParams(sample)
        /\ results' = Run(df, params', Tick)
        /\ study' = Append(study, [params |-> sample, value |-> Score(results')])
    /\ UNCHANGED <<df, ind, sig, lvl, pc, i, position, trades, n_trials>>

\* After the last trial: the backtest with the best parameters.
BestRerun ==
    /\ pc = "optimize"
    /\ Len(study) = n_trials
    /\ \E b \in 1..Len(study) :
        /\ IsBest(study, b)
        /\ params' = BestParams(study[b].params)
        /\ results' = Run(df, params', Tick)
    /\ pc' = "returned"
    /\ UNCHANGED <<df, ind, sig, lvl, i, position, trades, study, n_trials>>

NextOpt ==
    \/ Trial
    \/ BestRerun

SpecOpt == InitOpt /\ [][NextOpt]_vars

----------------------------------------------------------------------------
(* Properties of the parameters and the risk levels *)

\* C8: the parameter set a strategy holds satisfies
\* max_displacement_strength >= min_displacement_strength, whatever dict it
\* was constructed from.
C8_StrengthOrderAtConstruction ==
    params # None =>
        params.max_displacement_strength >= params.min_displacement_strength

\* max_risk_ticks * tick_size.
MaxRisk == F(params.max_risk_ticks * params.tick_size)

\* The levels are computed and the filter is enabled.
Filtered == pc \in {"scan", "done"} /\ params.use_max_risk_filter

\* No position and no trade carries a risk above max_risk.
NoTradeAboveMaxRisk ==
    /\ position # None => ~FGt(position.risk, MaxRisk)
    /\ \A k \in 1..Len(trades) : ~FGt(trades[k].risk, MaxRisk)

\* C9 as stated: with the filter enabled, a row whose risk exceeded
\* max_risk_ticks * tick_size has no signal and no level left (its stop,
\* target and risk are undefined, so no row holds a risk above the limit),
\* and no position or trade carries a risk above the limit.
C9_FilteredRowsHaveNoLevel ==
    Filtered =>
        /\ \A k \in 1..Len(lvl) :
              FGt(lvl[k].risk, MaxRisk) =>
                  /\ ~sig[k].short_signal /\ ~sig[k].long_signal
                  /\ IsNaN(lvl[k].stop_price)
                  /\ IsNaN(lvl[k].target_price)
                  /\ IsNaN(lvl[k].risk)
        /\ NoTradeAboveMaxRisk

\* C9, amended: with the filter enabled, a row whose risk exceeds
\* max_risk_ticks * tick_size has both signals nulled (its stop, target and
\* risk columns keep their values); no position is opened from it and no
\* position or trade carries a risk above the limit.
C9_FilteredRowsHaveNoSignal ==
    Filtered =>
        /\ \A k \in 1..Len(lvl) :
              FGt(lvl[k].risk, MaxRisk) =>
                  /\ ~sig[k].short_signal /\ ~sig[k].long_signal
                  /\ position # None => position.entry_time # k + 1
                  /\ \A j \in 1..Len(trades) : trades[j].entry_time # k + 1
        /\ NoTradeAboveMaxRisk

\* The scan is over without a position ever opened, although a row before
\* the last bar had levels: its risk was above the limit.
C9_Witness ==
    /\ Filtered
    /\ pc = "done"
    /\ position = None
    /\ trades = <<>>
    /\ \E k \in 1..(Len(lvl) - 1) : FGt(lvl[k].risk, MaxRisk)

\* e carries defined levels and a positive risk.
Actionable(e) ==
    /\ ~IsNaN(e.stop)
    /\ ~IsNaN(e.target)
    /\ ~IsNaN(e.risk)
    /\ FGt(e.risk, F(0))

\* C10: the open position and every trade carry a defined stop, target and
\* risk, and a risk > 0, for every stop_method and parameter values.
C10_ActionableRisk ==
    /\ position # None => Actionable(position)
    /\ \A k \in 1..Len(trades) : Actionable(trades[k])

----------------------------------------------------------------------------
(* Properties of objective *)

\* C7: the value recorded for a trial is exactly -1000 when its run made
\* fewer than 20 trades, whatever the run's other metrics; otherwise it is
\* profit_factor + win_rate / 100 - max_drawdown / 1000 of that run
\* (infinite when the profit factor is), stated here as
\* value + max_drawdown / 1000 - win_rate / 100 = profit_factor.
C7_ObjectiveScore ==
    (pc = "optimize" /\ study # <<>>) =>
        LET v == study[Len(study)].value
            wr == results.win_rate
        IN  IF results.total_trades < 20
            THEN v = [num |-> -1000, den |-> 1]
            ELSE IF IsInf(results.profit_factor) THEN IsInf(v)
            ELSE /\ ~IsInf(v)
                 /\ RSub(RAdd(v, Frac(results.max_drawdown, 1000 * Scale)),
                         Frac(wr.num, wr.den * 100))
                    = results.profit_factor

\* A first trial scored -1000 for its trade count, then a trial on the same
\* frame of exactly 20 trades, with winners, losers and a drawdown, scored
\* by the formula.
C7_Witness ==
    /\ pc = "optimize"
    /\ Len(study) = 2
    /\ study[1].value = [num |-> -1000, den |-> 1]
    /\ results.total_trades = 20
    /\ ~IsInf(results.profit_factor)
    /\ results.max_drawdown > 0
    /\ study[2].value # [num |-> -1000, den |-> 1]

----------------------------------------------------------------------------
(* Properties of calculate_metrics *)

\* The sum of pnl_dollars over the trades with index in S.
RECURSIVE PnlOver(_)
PnlOver(S) ==
    IF S = {} THEN 0
    ELSE LET k == CHOOSE j \in S : TRUE
         IN  trades[k].pnl_dollars.v + PnlOver(S \ {k})

\* C11: when backtest has returned, the metrics are defined: for an empty
\* trade list every field is 0; for a non-empty one the trades with
\* pnl_dollars > 0 and those with pnl_dollars <= 0 partition the list, and
\* profit_factor is gross profit / gross loss when the gross loss is
\* positive and the infinity sentinel when it is 0 (also when every trade
\* has pnl exactly 0).
C11_DegenerateMetrics ==
    pc = "done" =>
        IF trades = <<>>
        THEN results = [ total_trades |-> 0, win_rate |-> Zero,
                         profit_factor |-> Zero, total_pnl |-> 0,
                         avg_winner |-> Zero, avg_loser |-> Zero,
                         max_drawdown |-> 0, sharpe |-> Zero,
                         avg_r |-> Zero ]
        ELSE LET all == 1..Len(trades)
                 W == {k \in all : FGt(trades[k].pnl_dollars, F(0))}
                 L == {k \in all : FLe(trades[k].pnl_dollars, F(0))}
                 grossProfit == PnlOver(W)
                 grossLoss == -PnlOver(L)
                 pf == results.profit_factor
             IN  /\ W \cup L = all
                 /\ W \cap L = {}
                 /\ results.total_trades = Len(trades)
                 /\ results.win_rate.num * Len(trades)
                        = 100 * Cardinality(W) * results.win_rate.den
                 /\ grossLoss >= 0
                 /\ IF grossLoss > 0
                    THEN /\ pf.den > 0
                         /\ pf.num * grossLoss = grossProfit * pf.den
                    ELSE pf = [num |-> 1, den |-> 0]

\* backtest has returned trades that all have pnl exactly 0: losers without
\* a loss, and the sentinel as profit factor.
C11_Witness ==
    /\ pc = "done"
    /\ trades # <<>>
    /\ \A k \in 1..Len(trades) : trades[k].pnl_dollars = F(0)
    /\ IsInf(results.profit_factor)

----------------------------------------------------------------------------
(* Properties of generate_signals *)

\* C12: on every row, in every trade_direction mode, short_signal and
\* long_signal are never both true; under 'long_only' there is no short,
\* under 'short_only' no long, under 'auto' a short is on a downtrend row
\* and a long on an uptrend row; and the entry check, given a row with both
\* signals and a defined stop, opens the short.
C12_SignalExclusive ==
    /\ \A k \in 1..Len(sig) :
          /\ ~(sig[k].short_signal /\ sig[k].long_signal)
          /\ params.trade_direction = "long_only" => ~sig[k].short_signal
          /\ params.trade_direction = "short_only" => ~sig[k].long_signal
          /\ params.trade_direction = "auto" =>
                /\ sig[k].short_signal => ind[k].is_downtrend
                /\ sig[k].long_signal => ind[k].is_uptrend
    /\ (pc = "scan" /\ i <= Len(df) - 1 /\ ~IsNaN(lvl[i].stop_price)) =>
          EntryCheck([short_signal |-> TRUE, long_signal |-> TRUE],
                     lvl[i], df[i + 1], i + 1, params).direction = "short"

\* Under 'auto', a frame with a short signal on a downtrend row and a
\* bullish displacement candle with an upper wick left unsignalled on a row
\* that is not in a downtrend; the scan stands at a row with levels.
C12_Witness ==
    /\ pc = "scan"
    /\ params.trade_direction = "auto"
    /\ i <= Len(df) - 1
    /\ ~IsNaN(lvl[i].stop_price)
    /\ \E k \in 1..Len(sig) : sig[k].short_signal
    /\ \E k \in 1..Len(sig) :
          /\ short_base(ind[k])
          /\ ~ind[k].is_downtrend
          /\ ~sig[k].short_signal

----------------------------------------------------------------------------
(* Properties of the executed levels *)

\* e has its stop one risk from its fill and its target target_rr risks
\* from it, on the sides its direction gives, the risk being the risk
\* column of the signal row.
PlacedFromFill(e) ==
    LET r == lvl[e.entry_time - 1].risk
        side == IF e.direction = "long" THEN 1 ELSE -1
    IN  /\ e.risk = r
        /\ e.entry = F(df[e.entry_time].open)
        /\ ~IsNaN(e.stop) /\ ~IsNaN(e.target) /\ ~IsNaN(r)
        /\ e.stop.v = e.entry.v - side * r.v
        /\ (e.target.v - e.entry.v) * Scale = side * r.v * params.target_rr

\* C13: the open position and every trade have stop = fill - risk and
\* target = fill + risk * target_rr for a long, stop = fill + risk and
\* target = fill - risk * target_rr for a short, with the risk of the
\* signal row; and when backtest has returned, its trade list is the one a
\* run on the same frame with any other target_method builds.
C13_LevelsFromFill ==
    /\ position # None => PlacedFromFill(position)
    /\ \A k \in 1..Len(trades) : PlacedFromFill(trades[k])
    /\ pc = "done" =>
          \A tm \in TargetMethods :
              RunTrades(df, [params EXCEPT !.target_method = tm], Tick)
                  = trades

\* backtest has returned trades of a run with target_method 'wick_fill',
\* one of them with a target that is not the target_price of its signal
\* row.
C13_Witness ==
    /\ pc = "done"
    /\ params.target_method = "wick_fill"
    /\ \E k \in 1..Len(trades) :
          trades[k].target # lvl[trades[k].entry_time - 1].target_price

----------------------------------------------------------------------------
(* Floating-point execution of a trade *)

\* The arithmetic of backtest on binary floating-point numbers.  A float is
\* [m, e], the value m * 2^e with |m| < 2^Precision and m odd or 0; every
\* operation returns the exact result rounded to the nearest float, ties to
\* even, as Python's float does with 53 bits.  The exponent is not bounded.

\* Bits of the significand.
Precision == 4

RECURSIVE Pow2(_)
Pow2(k) == IF k <= 0 THEN 1 ELSE 2 * Pow2(k - 1)

\* Number of bits of n >= 0.
RECURSIVE BitLen(_)
BitLen(n) == IF n = 0 THEN 0 ELSE 1 + BitLen(n \div 2)

\* The exact number n * 2^e in normal form.
RECURSIVE Norm(_, _)
Norm(n, e) ==
    IF n = 0 THEN [m |-> 0, e |-> 0]
    ELSE IF n % 2 = 0 THEN Norm(n \div 2, e + 1)
    ELSE [m |-> n, e |-> e]

\* The exact number n * 2^e rounded to the nearest float, ties to even.
RoundToFloat(n, e) ==
    IF BitLen(Abs(n)) <= Precision THEN Norm(n, e)
    ELSE LET s == BitLen(Abs(n)) - Precision
             q == Abs(n) \div Pow2(s)
             rem == Abs(n) % Pow2(s)
             half == Pow2(s - 1)
             up == IF rem > half \/ (rem = half /\ q % 2 = 1) THEN 1 ELSE 0
             sign == IF n < 0 THEN -1 ELSE 1
         IN  Norm(sign * (q + up), e + s)

\* The exact a + b, a - b and a * b, as [n, e].
ExactAdd(a, b) ==
    LET e0 == Min(a.e, b.e)
    IN  [n |-> a.m * Pow2(a.e - e0) + b.m * Pow2(b.e - e0), e |-> e0]

ExactSub(a, b) == ExactAdd(a, [m |-> -b.m, e |-> b.e])

ExactMul(a, b) == [n |-> a.m * b.m, e |-> a.e + b.e]

\* The float x is the exact number x.
IsExact(x, exact) == x = Norm(exact.n, exact.e)

FloatAdd(a, b) == RoundToFloat(ExactAdd(a, b).n, ExactAdd(a, b).e)
FloatSub(a, b) == RoundToFloat(ExactSub(a, b).n, ExactSub(a, b).e)
FloatMul(a, b) == RoundToFloat(ExactMul(a, b).n, ExactMul(a, b).e)

\* a / b for b # 0: the quotient to Precision + 2 bits and more, with a
\* sticky last bit for the remainder, then rounded.
FloatDiv(a, b) ==
    LET k == Precision + 2 + BitLen(Abs(b.m))
        num == Abs(a.m) * Pow2(k)
        q == num \div Abs(b.m)
        sticky == IF num % Abs(b.m) > 0 THEN 1 ELSE 0
        sign == IF (a.m < 0) # (b.m < 0) THEN -1 ELSE 1
    IN  RoundToFloat(sign * (2 * q + sticky), a.e - b.e - k - 1)

FloatLe(a, b) == ExactSub(a, b).n <= 0
FloatGe(a, b) == ExactSub(a, b).n >= 0
FloatGt(a, b) == ExactSub(a, b).n > 0

FloatZero == [m |-> 0, e |-> 0]
FloatNeg(a) == [m |-> -a.m, e |-> a.e]

\* backtest's entry (l.324-344) on floats: l is the signal row's levels.
OpenPositionFloat(dir, l, next_row, t, p) ==
    LET entry_price == next_row.open
        risk == l.risk
    IN  [ direction  |-> dir,
          entry      |-> entry_price,
          entry_time |-> t,
          stop       |-> IF dir = "short" THEN FloatAdd(entry_price, risk)
                         ELSE FloatSub(entry_price, risk),
          target     |-> IF dir = "short"
                         THEN FloatSub(entry_price, FloatMul(risk, p.target_rr))
                         ELSE FloatAdd(entry_price, FloatMul(risk, p.target_rr)),
          risk       |-> risk ]

\* backtest's exit check (l.278-295) on floats.
ExitCheckFloat(pos, next_row) ==
    IF pos.direction = "long"
    THEN IF FloatLe(next_row.low, pos.stop)
         THEN [exit_price |-> pos.stop, exit_reason |-> "stop"]
         ELSE IF FloatGe(next_row.high, pos.target)
         THEN [exit_price |-> pos.target, exit_reason |-> "target"]
         ELSE None
    ELSE IF FloatGe(next_row.high, pos.stop)
         THEN [exit_price |-> pos.stop, exit_reason |-> "stop"]
         ELSE IF FloatLe(next_row.low, pos.target)
         THEN [exit_price |-> pos.target, exit_reason |-> "target"]
         ELSE None

\* A trade dict whose pnl is exit - entry for shorts too.
MakeTradeFloatLongPnl(pos, x, t, p) ==
    LET pnl == FloatSub(x.exit_price, pos.entry)
        pnl_ticks == FloatDiv(pnl, p.tick_size)
    IN  [ entry_time  |-> pos.entry_time,
          exit_time   |-> t,
          direction   |-> pos.direction,
          entry       |-> pos.entry,
          exit        |-> x.exit_price,
          stop        |-> pos.stop,
          target      |-> pos.target,
          pnl_points  |-> pnl,
          pnl_ticks   |-> pnl_ticks,
          pnl_dollars |-> FloatMul(pnl_ticks, p.tick_value),
          exit_reason |-> x.exit_reason,
          risk        |-> pos.risk,
          r_multiple  |-> IF FloatGt(pos.risk, FloatZero)
                          THEN FloatDiv(pnl, pos.risk)
                          ELSE FloatZero ]

\* The trade dict (l.298-317) on floats.
MakeTradeFloat(pos, x, t, p) ==
    LET pnl == IF pos.direction = "long"
               THEN FloatSub(x.exit_price, pos.entry)
               ELSE FloatSub(pos.entry, x.exit_price)
        pnl_ticks == FloatDiv(pnl, p.tick_size)
    IN  [ entry_time  |-> pos.entry_time,
          exit_time   |-> t,
          direction   |-> pos.direction,
          entry       |-> pos.entry,
          exit        |-> x.exit_price,
          stop        |-> pos.stop,
          target      |-> pos.target,
          pnl_points  |-> pnl,
          pnl_ticks   |-> pnl_ticks,
          pnl_dollars |-> FloatMul(pnl_ticks, p.tick_value),
          exit_reason |-> x.exit_reason,
          risk        |-> pos.risk,
          r_multiple  |-> IF FloatGt(pos.risk, FloatZero)
                          THEN FloatDiv(pnl, pos.risk)
                          ELSE FloatZero ]

\* Prices 4.5, 12, 13, 30 and 60; risks -1, 0, 0.75, 1 and 2.5; target_rr
\* 1, 1.25 and 3.
FloatPrices == {Norm(9, -1), Norm(12, 0), Norm(13, 0), Norm(30, 0), Norm(60, 0)}
FloatRisks == {Norm(-1, 0), FloatZero, Norm(3, -2), Norm(1, 0), Norm(5, -1)}
FloatRRs == {Norm(1, 0), Norm(5, -2), Norm(3, 0)}

FloatBars ==
    { [open |-> o, high |-> h, low |-> l, close |-> o] :
        <<o, h, l>> \in { t \in FloatPrices \X FloatPrices \X FloatPrices :
                            FloatLe(t[3], t[1]) /\ FloatLe(t[1], t[2]) } }

\* A run of backtest from a signal row on: df holds the bar the position
\* was filled on and the latest next_row.
InitFloat ==
    /\ \E rr \in FloatRRs :
          params = [target_rr |-> rr, tick_size |-> Norm(1, -2),
                    tick_value |-> Norm(1, -1)]
    /\ df = <<>>
    /\ pc = "signal"
    /\ position = None
    /\ trades = <<>>
    /\ i = 1
    /\ ind = <<>>
    /\ sig = <<>>
    /\ lvl = <<>>
    /\ results = None
    /\ study = <<>>
    /\ n_trials = 0

\* The entry on the bar after a signal row with a defined risk.
EnterFloat ==
    /\ pc = "signal"
    /\ \E dir \in {"long", "short"}, risk \in FloatRisks, bar \in FloatBars :
          /\ position' = OpenPositionFloat(dir, [risk |-> risk], bar, i + 1,
                                           params)
          /\ df' = <<bar>>
    /\ pc' = "open"
    /\ i' = i + 1
    /\ UNCHANGED <<params, trades, ind, sig, lvl, results, study, n_trials>>

\* The exit check against a next bar.
ExitFloat ==
    /\ pc = "open"
    /\ \E bar \in FloatBars :
          LET x == ExitCheckFloat(position, bar)
          IN  /\ df' = <<df[1], bar>>
              /\ IF x # None
                 THEN /\ trades' = Append(trades,
                                     MakeTradeFloat(position, x, i + 1, params))
                      /\ position' = None
                      /\ pc' = "closed"
                 ELSE UNCHANGED <<trades, position, pc>>
    /\ UNCHANGED <<params, i, ind, sig, lvl, results, study, n_trials>>

NextFloat ==
    \/ EnterFloat
    \/ ExitFloat

SpecFloat == InitFloat /\ [][NextFloat]_vars

----------------------------------------------------------------------------
(* Properties of a trade's pnl *)

\* C14 as stated: a trade closed at its stop has pnl_points = -risk and one
\* closed at its target pnl_points = risk * target_rr, so its r_multiple is
\* -1 or target_rr when risk > 0, and 0 when risk <= 0.
C14_PnlIsRiskMultiple ==
    \A k \in 1..Len(trades) :
        LET t == trades[k]
        IN  /\ t.exit_reason = "stop" => t.pnl_points = FloatNeg(t.risk)
            /\ t.exit_reason = "target" =>
                  t.pnl_points = FloatMul(t.risk, params.target_rr)
            /\ IF FloatGt(t.risk, FloatZero)
               THEN t.r_multiple \in {Norm(-1, 0), params.target_rr}
               ELSE t.r_multiple = FloatZero

\* The levels of t were computed without rounding.
StopUnrounded(t) ==
    IsExact(t.stop, IF t.direction = "long" THEN ExactSub(t.entry, t.risk)
                    ELSE ExactAdd(t.entry, t.risk))

TargetUnrounded(t) ==
    LET d == FloatMul(t.risk, params.target_rr)
    IN  /\ IsExact(d, ExactMul(t.risk, params.target_rr))
        /\ IsExact(t.target, IF t.direction = "long" THEN ExactAdd(t.entry, d)
                             ELSE ExactSub(t.entry, d))

\* C14, amended: a trade is filled exactly at its level, whatever the exit
\* bar's prices, and its pnl_points is the floating-point difference between
\* that level and the fill: -risk for a stop and risk * target_rr for a
\* target whenever the level was computed without rounding, and of the sign
\* of that value (or 0) otherwise, for risk >= 0.  r_multiple is pnl_points
\* / risk when risk > 0, which is -1 or target_rr when the level was
\* computed without rounding, and 0 when risk <= 0.
C14_PnlFromLevels ==
    \A k \in 1..Len(trades) :
        LET t == trades[k]
            side == IF t.direction = "long" THEN 1 ELSE -1
            diff == ExactSub(t.exit, t.entry)
        IN  /\ t.exit = IF t.exit_reason = "stop" THEN t.stop ELSE t.target
            /\ t.pnl_points = RoundToFloat(side * diff.n, diff.e)
            /\ (t.exit_reason = "stop" /\ StopUnrounded(t)) =>
                  t.pnl_points = FloatNeg(t.risk)
            /\ (t.exit_reason = "target" /\ TargetUnrounded(t)) =>
                  IsExact(t.pnl_points, ExactMul(t.risk, params.target_rr))
            /\ (t.exit_reason = "stop" /\ FloatGe(t.risk, FloatZero)) =>
                  FloatLe(t.pnl_points, FloatZero)
            /\ (t.exit_reason = "target" /\ FloatGe(t.risk, FloatZero)) =>
                  FloatGe(t.pnl_points, FloatZero)
            /\ IF FloatGt(t.risk, FloatZero)
               THEN /\ t.r_multiple = FloatDiv(t.pnl_points, t.risk)
                    /\ (t.exit_reason = "stop" /\ StopUnrounded(t)) =>
                          t.r_multiple = Norm(-1, 0)
                    /\ (t.exit_reason = "target" /\ TargetUnrounded(t)) =>
                          t.r_multiple = params.target_rr
               ELSE t.r_multiple = FloatZero

\* A short closed at a stop that was computed without rounding, on a bar
\* that gapped through it: pnl_points is -risk and r_multiple -1.
C14_Witness ==
    /\ pc = "closed"
    /\ \E k \in 1..Len(trades) :
          /\ trades[k].direction = "short"
          /\ trades[k].exit_reason = "stop"
          /\ FloatGt(trades[k].risk, FloatZero)
          /\ StopUnrounded(trades[k])
          /\ FloatGt(df[2].low, trades[k].stop)
          /\ trades[k].pnl_points = FloatNeg(trades[k].risk)
          /\ trades[k].r_multiple = Norm(-1, 0)

====
